---- MODULE Spec2Model ----
(***************************************************************************)
(* Model of the MyC lexical analyzer (lexical_analyzer.py).                *)
(*                                                                         *)
(* The scanner object is the state: source, position, line, column,        *)
(* symbol_table and tokens.  Characters are one-character strings; the     *)
(* source and every lexeme are sequences of characters.  Python indexes    *)
(* from 0, sequences from 1: At(p) is source[p] of the program.            *)
(***************************************************************************)
EXTENDS Integers, Sequences, FiniteSets, TLC

VARIABLES source, position, line, column, symbol_table, tokens,
          result, block_comments, eof_returned, error_raised,
          analyze_status, analyze_calls, returned, scope, table_call

vars == <<source, position, line, column, symbol_table, tokens,
          result, block_comments, eof_returned, error_raised,
          analyze_status, analyze_calls, returned, scope, table_call>>

(***************************************************************************)
(* Bounds                                                                  *)
(***************************************************************************)
MaxLen == 4

MaxLenChars == 3

MaxLenTrivia == 7

MaxBody == 3

MaxAnalyzeCalls == 2

MaxWords == 3

MaxScopes == 2

(***************************************************************************)
(* Character classes: str.isdigit, str.isalpha, str.isalnum, str.isspace   *)
(* restricted to ASCII.                                                    *)
(***************************************************************************)
Digits == {"0", "1", "2", "3", "4", "5", "6", "7", "8", "9"}

Letters == {"a", "b", "c", "d", "e", "f", "g", "h", "i", "j", "k", "l", "m",
            "n", "o", "p", "q", "r", "s", "t", "u", "v", "w", "x", "y", "z",
            "A", "B", "C", "D", "E", "F", "G", "H", "I", "J", "K", "L", "M",
            "N", "O", "P", "Q", "R", "S", "T", "U", "V", "W", "X", "Y", "Z"}

Spaces == {" ", "\t", "\n", "\r", "\f"}

isdigit(c) == c \in Digits

isalpha(c) == c \in Letters

isalnum(c) == c \in Letters \cup Digits

isspace(c) == c \in Spaces

(***************************************************************************)
(* class TokenType: member name -> value (the value as a character         *)
(* sequence).                                                              *)
(***************************************************************************)
TokenType ==
    ("LPAREN" :> <<"(">>) @@ ("RPAREN" :> <<")">>) @@
    ("LBRACE" :> <<"{">>) @@ ("RBRACE" :> <<"}">>) @@ ("COMMA" :> <<",">>) @@
    ("SEMICOLON" :> <<";">>) @@ ("PLUS" :> <<"+">>) @@
    ("MINUS" :> <<"-">>) @@ ("STAR" :> <<"*">>) @@ ("SLASH" :> <<"/">>) @@
    ("PERCENT" :> <<"%">>) @@ ("LESS" :> <<"<">>) @@
    ("GREATER" :> <<">">>) @@ ("EQUAL" :> <<"=">>) @@ ("BANG" :> <<"!">>) @@
    ("LBRACKET" :> <<"[">>) @@ ("RBRACKET" :> <<"]">>) @@
    ("LE" :> <<"<", "=">>) @@ ("GE" :> <<">", "=">>) @@
    ("EQ" :> <<"=", "=">>) @@ ("NE" :> <<"!", "=">>) @@
    ("OR" :> <<"|", "|">>) @@ ("AND" :> <<"&", "&">>) @@
    ("IF" :> <<"i", "f">>) @@ ("ELSE" :> <<"e", "l", "s", "e">>) @@
    ("WHILE" :> <<"w", "h", "i", "l", "e">>) @@
    ("FOR" :> <<"f", "o", "r">>) @@
    ("RETURN" :> <<"r", "e", "t", "u", "r", "n">>) @@
    ("BREAK" :> <<"b", "r", "e", "a", "k">>) @@
    ("NEW" :> <<"n", "e", "w">>) @@ ("SIZE" :> <<"s", "i", "z", "e">>) @@
    ("VOID" :> <<"v", "o", "i", "d">>) @@
    ("BOOL" :> <<"b", "o", "o", "l">>) @@ ("INT" :> <<"i", "n", "t">>) @@
    ("FLOAT" :> <<"f", "l", "o", "a", "t">>) @@
    ("BOOL_LIT" :> <<"B", "O", "O", "L", "_", "L", "I", "T">>) @@
    ("INT_LIT" :> <<"I", "N", "T", "_", "L", "I", "T">>) @@
    ("FLOAT_LIT" :> <<"F", "L", "O", "A", "T", "_", "L", "I", "T">>) @@
    ("IDENTIFIER" :> <<"I", "D", "E", "N", "T", "I", "F", "I", "E", "R">>) @@
    ("EOF" :> <<"E", "O", "F">>)

(* LexicalAnalyzer.KEYWORDS: keyword text -> TokenType member *)
KEYWORDS ==
    (<<"i", "f">> :> "IF") @@ (<<"e", "l", "s", "e">> :> "ELSE") @@
    (<<"w", "h", "i", "l", "e">> :> "WHILE") @@ (<<"f", "o", "r">> :> "FOR") @@
    (<<"r", "e", "t", "u", "r", "n">> :> "RETURN") @@
    (<<"b", "r", "e", "a", "k">> :> "BREAK") @@ (<<"n", "e", "w">> :> "NEW") @@
    (<<"s", "i", "z", "e">> :> "SIZE") @@ (<<"v", "o", "i", "d">> :> "VOID") @@
    (<<"b", "o", "o", "l">> :> "BOOL") @@ (<<"i", "n", "t">> :> "INT") @@
    (<<"f", "l", "o", "a", "t">> :> "FLOAT") @@
    (<<"t", "r", "u", "e">> :> "BOOL_LIT") @@
    (<<"f", "a", "l", "s", "e">> :> "BOOL_LIT")

(* LexicalAnalyzer.OPERATORS: two-character text -> TokenType member *)
OPERATORS ==
    (<<"<", "=">> :> "LE") @@ (<<">", "=">> :> "GE") @@
    (<<"=", "=">> :> "EQ") @@ (<<"!", "=">> :> "NE") @@
    (<<"|", "|">> :> "OR") @@ (<<"&", "&">> :> "AND")

(***************************************************************************)
(* Values returned or raised by next_token.  start is the cursor position  *)
(* at which the token (or the construct that raised) begins: the value of  *)
(* self.position when the call dispatched on the current character.        *)
(***************************************************************************)
Token(type, value, ln, col, start) ==
    [kind |-> "token", type |-> type, value |-> value,
     line |-> ln, column |-> col, start |-> start]

LexicalError(message, ln, col, start) ==
    [kind |-> "error", type |-> message, value |-> <<>>,
     line |-> ln, column |-> col, start |-> start]

NoResult ==
    [kind |-> "none", type |-> "", value |-> <<>>,
     line |-> 0, column |-> 0, start |-> 0]

(***************************************************************************)
(* SymbolInfo and SymbolTable.  An optional value is a sequence of length  *)
(* at most one (<<>> is None).                                             *)
(***************************************************************************)
SymbolInfo(name, type_) ==
    [name |-> name, type |-> type_, is_local |-> TRUE, array_length |-> -1,
     return_type |-> "None", param_types |-> <<>>, local_var_count |-> 0]

SymbolTable(name) ==
    [symbols |-> <<>>, parent |-> <<>>, name |-> name]

(* insert that keeps an entry the scope already has *)
insert_if_absent(table, name, info) ==
    [table EXCEPT !.symbols =
        [n \in DOMAIN table.symbols \cup {name} |->
            IF n \in DOMAIN table.symbols THEN table.symbols[n] ELSE info]]

insert(table, name, info) ==
    [table EXCEPT !.symbols =
        [n \in DOMAIN table.symbols \cup {name} |->
            IF n = name THEN info ELSE table.symbols[n]]]

RECURSIVE lookup(_, _)
lookup(table, name) ==
    IF name \in DOMAIN table.symbols THEN <<table.symbols[name]>>
    ELSE IF table.parent # <<>> THEN lookup(table.parent[1], name)
    ELSE <<>>

initialize_built_in_functions(table) ==
    LET read_info == [SymbolInfo(<<"r", "e", "a", "d">>, "function")
                        EXCEPT !.return_type = "any",
                               !.param_types = <<"void">>]
        write_info == [SymbolInfo(<<"w", "r", "i", "t", "e">>, "function")
                        EXCEPT !.return_type = "void",
                               !.param_types = <<"any">>]
    IN insert(insert(table, <<"r", "e", "a", "d">>, read_info),
              <<"w", "r", "i", "t", "e">>, write_info)

(***************************************************************************)
(* The scanner.  A cursor s is [position, line, column].                   *)
(***************************************************************************)
At(p) == source[p + 1]

RECURSIVE skip_whitespace(_)
skip_whitespace(s) ==
    IF s.position < Len(source) /\ isspace(At(s.position))
    THEN IF At(s.position) = "\n"
         THEN skip_whitespace([position |-> s.position + 1,
                               line |-> s.line + 1, column |-> 1])
         ELSE skip_whitespace([position |-> s.position + 1,
                               line |-> s.line, column |-> s.column + 1])
    ELSE s

RECURSIVE line_comment_loop(_)
line_comment_loop(s) ==
    IF s.position < Len(source) /\ At(s.position) # "\n"
    THEN line_comment_loop([s EXCEPT !.position = @ + 1])
    ELSE s

(* skip_line_comment that restarts the column at 1 *)
skip_line_comment_column_reset(s) ==
    line_comment_loop([s EXCEPT !.position = @ + 2, !.column = 1])

skip_line_comment(s) ==
    line_comment_loop([s EXCEPT !.position = @ + 2])

(* block_comment_loop that consumes only the "*" of the closer *)
RECURSIVE block_comment_loop_half_closer(_)
block_comment_loop_half_closer(s) ==
    IF s.position < Len(source) - 1
    THEN IF At(s.position) = "*" /\ At(s.position + 1) = "/"
         THEN [s |-> [s EXCEPT !.position = @ + 1], raised |-> FALSE]
         ELSE IF At(s.position) = "\n"
              THEN block_comment_loop_half_closer(
                       [position |-> s.position + 1,
                        line |-> s.line + 1, column |-> 1])
              ELSE block_comment_loop_half_closer(
                       [position |-> s.position + 1,
                        line |-> s.line, column |-> s.column + 1])
    ELSE [s |-> s, raised |-> TRUE]

(* block_comment_loop that does not count the newlines inside the comment *)
RECURSIVE block_comment_loop_same_line(_)
block_comment_loop_same_line(s) ==
    IF s.position < Len(source) - 1
    THEN IF At(s.position) = "*" /\ At(s.position + 1) = "/"
         THEN [s |-> [s EXCEPT !.position = @ + 2], raised |-> FALSE]
         ELSE block_comment_loop_same_line(
                  [position |-> s.position + 1,
                   line |-> s.line, column |-> s.column + 1])
    ELSE [s |-> s, raised |-> TRUE]

(* the while loop of skip_block_comment; raised is TRUE when the loop ends *)
(* without finding the closer                                              *)
RECURSIVE block_comment_loop(_)
block_comment_loop(s) ==
    IF s.position < Len(source) - 1
    THEN IF At(s.position) = "*" /\ At(s.position + 1) = "/"
         THEN [s |-> [s EXCEPT !.position = @ + 2], raised |-> FALSE]
         ELSE IF At(s.position) = "\n"
              THEN block_comment_loop([position |-> s.position + 1,
                                       line |-> s.line + 1, column |-> 1])
              ELSE block_comment_loop([position |-> s.position + 1,
                                       line |-> s.line,
                                       column |-> s.column + 1])
    ELSE [s |-> s, raised |-> TRUE]

(* skip_block_comment that skips only the "/" of the opener, so that the   *)
(* "*" of the opener can serve as the "*" of a closer                      *)
skip_block_comment_short_opener(s) ==
    block_comment_loop([s EXCEPT !.position = @ + 1])

skip_block_comment(s) ==
    block_comment_loop([s EXCEPT !.position = @ + 2])

(* number_loop that accepts a "." whether or not one was consumed before *)
RECURSIVE number_loop_any_dots(_, _, _)
number_loop_any_dots(s, number, is_float) ==
    IF s.position < Len(source)
    THEN LET char == At(s.position)
         IN IF isdigit(char)
            THEN number_loop_any_dots(
                     [s EXCEPT !.position = @ + 1, !.column = @ + 1],
                     Append(number, char), is_float)
            ELSE IF char = "."
            THEN number_loop_any_dots(
                     [s EXCEPT !.position = @ + 1, !.column = @ + 1],
                     Append(number, char), TRUE)
            ELSE [s |-> s, number |-> number, is_float |-> is_float]
    ELSE [s |-> s, number |-> number, is_float |-> is_float]

(* number_loop that consumes the dot without keeping it in the text *)
RECURSIVE number_loop_skips_dot(_, _, _)
number_loop_skips_dot(s, number, is_float) ==
    IF s.position < Len(source)
    THEN LET char == At(s.position)
         IN IF isdigit(char)
            THEN number_loop_skips_dot(
                     [s EXCEPT !.position = @ + 1, !.column = @ + 1],
                     Append(number, char), is_float)
            ELSE IF char = "." /\ ~is_float
            THEN number_loop_skips_dot(
                     [s EXCEPT !.position = @ + 1, !.column = @ + 1],
                     number, TRUE)
            ELSE [s |-> s, number |-> number, is_float |-> is_float]
    ELSE [s |-> s, number |-> number, is_float |-> is_float]

(* the while loop of scan_number *)
RECURSIVE number_loop(_, _, _)
number_loop(s, number, is_float) ==
    IF s.position < Len(source)
    THEN LET char == At(s.position)
         IN IF isdigit(char)
            THEN number_loop([s EXCEPT !.position = @ + 1, !.column = @ + 1],
                             Append(number, char), is_float)
            ELSE IF char = "." /\ ~is_float
            THEN number_loop([s EXCEPT !.position = @ + 1, !.column = @ + 1],
                             Append(number, char), TRUE)
            ELSE [s |-> s, number |-> number, is_float |-> is_float]
    ELSE [s |-> s, number |-> number, is_float |-> is_float]

endswith_dot(number) ==
    Len(number) > 0 /\ number[Len(number)] = "."

scan_number(s) ==
    LET start_column == s.column
        r == number_loop(s, <<>>, FALSE)
    IN [s |-> r.s,
        result |->
            IF r.is_float
            THEN IF endswith_dot(r.number)
                 THEN LexicalError("Invalid float literal", r.s.line,
                                   start_column, s.position)
                 ELSE Token("FLOAT_LIT", r.number, r.s.line, start_column,
                            s.position)
            ELSE Token("INT_LIT", r.number, r.s.line, start_column,
                       s.position)]

(* identifier_loop that ends the identifier at the first digit *)
RECURSIVE identifier_loop_no_digits(_, _)
identifier_loop_no_digits(s, identifier) ==
    IF s.position < Len(source)
    THEN LET char == At(s.position)
         IN IF isalpha(char) \/ char = "_"
            THEN identifier_loop_no_digits([s EXCEPT !.position = @ + 1,
                                                     !.column = @ + 1],
                                           Append(identifier, char))
            ELSE [s |-> s, identifier |-> identifier]
    ELSE [s |-> s, identifier |-> identifier]

(* the while loop of scan_identifier *)
RECURSIVE identifier_loop(_, _)
identifier_loop(s, identifier) ==
    IF s.position < Len(source)
    THEN LET char == At(s.position)
         IN IF isalnum(char) \/ char = "_"
            THEN identifier_loop([s EXCEPT !.position = @ + 1,
                                           !.column = @ + 1],
                                 Append(identifier, char))
            ELSE [s |-> s, identifier |-> identifier]
    ELSE [s |-> s, identifier |-> identifier]

(* scan_identifier that registers the text before the keyword check *)
scan_identifier_registers_keywords(s, table) ==
    LET start_column == s.column
        r == identifier_loop(s, <<>>)
        registered == IF lookup(table, r.identifier) = <<>>
                      THEN insert(table, r.identifier,
                                  SymbolInfo(r.identifier, "unknown"))
                      ELSE table
    IN [s |-> r.s, table |-> registered,
        result |-> Token(IF r.identifier \in DOMAIN KEYWORDS
                         THEN KEYWORDS[r.identifier] ELSE "IDENTIFIER",
                         r.identifier, r.s.line, start_column, s.position)]

(* scan_identifier that inserts without looking the name up first *)
scan_identifier_always_inserts(s, table) ==
    LET start_column == s.column
        r == identifier_loop(s, <<>>)
    IN IF r.identifier \in DOMAIN KEYWORDS
       THEN [s |-> r.s, table |-> table,
             result |-> Token(KEYWORDS[r.identifier], r.identifier,
                              r.s.line, start_column, s.position)]
       ELSE [s |-> r.s,
             table |-> insert(table, r.identifier,
                              SymbolInfo(r.identifier, "unknown")),
             result |-> Token("IDENTIFIER", r.identifier, r.s.line,
                              start_column, s.position)]

scan_identifier(s, table) ==
    LET start_column == s.column
        r == identifier_loop(s, <<>>)
    IN IF r.identifier \in DOMAIN KEYWORDS
       THEN [s |-> r.s, table |-> table,
             result |-> Token(KEYWORDS[r.identifier], r.identifier,
                              r.s.line, start_column, s.position)]
       ELSE [s |-> r.s,
             table |-> IF lookup(table, r.identifier) = <<>>
                       THEN insert(table, r.identifier,
                                   SymbolInfo(r.identifier, "unknown"))
                       ELSE table,
             result |-> Token("IDENTIFIER", r.identifier, r.s.line,
                              start_column, s.position)]

(* eof_token with the cursor moved past the end: the column is advanced    *)
(* as if a character had been consumed                                     *)
eof_token_advancing(s) ==
    [s |-> [s EXCEPT !.column = @ + 1],
     result |-> Token("EOF", <<>>, s.line, s.column, s.position)]

(* next_token, lines 171-172: the end-of-input branch *)
eof_token(s) ==
    [s |-> s, result |-> Token("EOF", <<>>, s.line, s.column, s.position)]

(* next_token, lines 195-201: the two-character operator branch *)
is_operator(s) ==
    /\ s.position + 1 < Len(source)
    /\ <<At(s.position), At(s.position + 1)>> \in DOMAIN OPERATORS

operator_token(s) ==
    LET op == <<At(s.position), At(s.position + 1)>>
        s2 == [s EXCEPT !.position = @ + 2, !.column = @ + 2]
    IN [s |-> s2,
        result |-> Token(OPERATORS[op], op, s2.line, s2.column - 2,
                         s.position)]

(* single_char_token that reports the column after the character *)
single_char_token_column_after(s) ==
    LET char == At(s.position)
        s2 == [s EXCEPT !.position = @ + 1, !.column = @ + 1]
        matching == {t \in DOMAIN TokenType : TokenType[t] = <<char>>}
    IN [s |-> s2,
        result |->
            IF matching # {}
            THEN Token(CHOOSE t \in matching : TRUE, <<char>>, s2.line,
                       s2.column, s.position)
            ELSE LexicalError("Unexpected character", s2.line,
                              s2.column, s.position)]

(* next_token, lines 203-210: the single-character branch *)
single_char_token(s) ==
    LET char == At(s.position)
        s2 == [s EXCEPT !.position = @ + 1, !.column = @ + 1]
        matching == {t \in DOMAIN TokenType : TokenType[t] = <<char>>}
    IN [s |-> s2,
        result |->
            IF matching # {}
            THEN Token(CHOOSE t \in matching : TRUE, <<char>>, s2.line,
                       s2.column - 1, s.position)
            ELSE LexicalError("Unexpected character", s2.line,
                              s2.column - 1, s.position)]

(* next_token.  opened lists the positions at which this call (with its    *)
(* recursive calls) has entered skip_block_comment.                        *)
RECURSIVE next_token(_, _, _)
next_token(s0, table, opened) ==
    LET s == skip_whitespace(s0)
        Out(r, tbl) == [s |-> r.s, table |-> tbl, result |-> r.result,
                        opened |-> opened]
    IN IF s.position >= Len(source) THEN Out(eof_token(s), table)
       ELSE LET char == At(s.position)
            IN IF /\ char = "/"
                  /\ s.position + 1 < Len(source)
                  /\ At(s.position + 1) = "/"
               THEN next_token(skip_line_comment(s), table, opened)
               ELSE IF /\ char = "/"
                       /\ s.position + 1 < Len(source)
                       /\ At(s.position + 1) = "*"
               THEN LET c == skip_block_comment(s)
                    IN IF c.raised
                       THEN [s |-> c.s, table |-> table,
                             result |->
                                LexicalError("Unterminated block comment",
                                             c.s.line, c.s.column,
                                             s.position),
                             opened |-> Append(opened, s.position)]
                       ELSE next_token(c.s, table,
                                       Append(opened, s.position))
               ELSE IF isdigit(char)
               THEN Out(scan_number(s), table)
               ELSE IF isalpha(char) \/ char = "_"
               THEN LET i == scan_identifier(s, table)
                    IN Out(i, i.table)
               ELSE IF is_operator(s)
               THEN Out(operator_token(s), table)
               ELSE Out(single_char_token(s), table)

(* the token without the start annotation, as stored in self.tokens *)
AsToken(r) ==
    [type |-> r.type, value |-> r.value, line |-> r.line,
     column |-> r.column]

(* analyze that leaves the loop at EOF before appending the token *)
RECURSIVE analyze_drops_eof(_, _, _, _)
analyze_drops_eof(s, table, toks, rets) ==
    LET r == next_token(s, table, <<>>)
    IN IF r.result.kind = "error"
       THEN [s |-> r.s, table |-> r.table, tokens |-> toks,
             result |-> r.result, opened |-> r.opened, returned |-> rets]
       ELSE IF r.result.type = "EOF"
       THEN [s |-> r.s, table |-> r.table, tokens |-> toks,
             result |-> r.result, opened |-> r.opened, returned |-> rets]
       ELSE analyze_drops_eof(r.s, r.table,
                              Append(toks, AsToken(r.result)),
                              Append(rets, r.result))

(* the loop of analyze: toks is self.tokens; rets collects the non-EOF     *)
(* tokens that next_token has returned, with their start positions         *)
RECURSIVE analyze(_, _, _, _)
analyze(s, table, toks, rets) ==
    LET r == next_token(s, table, <<>>)
    IN IF r.result.kind = "error"
       THEN [s |-> r.s, table |-> r.table, tokens |-> toks,
             result |-> r.result, opened |-> r.opened, returned |-> rets]
       ELSE IF r.result.type = "EOF"
       THEN [s |-> r.s, table |-> r.table,
             tokens |-> Append(toks, AsToken(r.result)),
             result |-> r.result, opened |-> r.opened, returned |-> rets]
       ELSE analyze(r.s, r.table, Append(toks, AsToken(r.result)),
                    Append(rets, r.result))

(***************************************************************************)
(* State machine                                                           *)
(***************************************************************************)
Cursor == [position |-> position, line |-> line, column |-> column]

Sources(alphabet, n) == UNION {[1..k -> alphabet] : k \in 0..n}

(* one character of each class the scanner distinguishes: letter, digit,   *)
(* dot, the two comment characters and a newline                           *)
Alphabet == {"a", "1", ".", "/", "*", "\n"}

(* operator characters, characters no rule accepts, and a blank *)
CharAlphabet == {"@", "&", "|", ".", "=", "a", "1", " "}

(* the characters of comments and blank lines *)
TriviaAlphabet == {"/", "*", "\n"}

(* a closed block comment on one line, and one spanning two lines *)
BlockComments == {<<"/", "*", "*", "/">>, <<"/", "*", "\n", "*", "/">>}

(* the characters that follow the comment *)
BodyAlphabet == {"=", "1", ".", "a", " "}

(* the pieces sources of words are made of: keywords, the boolean          *)
(* literals, the built-in names, characters that extend or separate them,  *)
(* and a character no rule accepts                                         *)
Pieces ==
    {<<"i", "f">>, <<"i", "n", "t">>, <<"t", "r", "u", "e">>,
     <<"f", "a", "l", "s", "e">>, <<"r", "e", "a", "d">>,
     <<"w", "r", "i", "t", "e">>, <<"x">>, <<"_">>, <<"1">>, <<" ">>,
     <<"@">>}

RECURSIVE Flatten(_)
Flatten(ws) == IF ws = <<>> THEN <<>> ELSE Head(ws) \o Flatten(Tail(ws))

(* no SymbolTable method has been called by a client yet *)
NoCall == [op |-> "none", name |-> <<>>, info |-> <<>>, value |-> <<>>,
           before |-> <<>>]

(* the names and entries clients of SymbolTable use *)
Names == {<<"x">>, <<"y">>}

Infos == {SymbolInfo(<<"x">>, "unknown"), SymbolInfo(<<"f">>, "function")}

(* the dictionaries over Names *)
SymbolMaps == UNION {[D -> Infos] : D \in SUBSET Names}

(* the tables with at most n scopes above them, linked through parent *)
RECURSIVE Scopes(_)
Scopes(n) ==
    {[symbols |-> m, parent |-> <<>>, name |-> "scope"] : m \in SymbolMaps}
    \cup (IF n = 0 THEN {}
          ELSE {[symbols |-> m, parent |-> <<q>>, name |-> "scope"] :
                    m \in SymbolMaps, q \in Scopes(n - 1)})

(* LexicalAnalyzer.__init__ *)
InitOn(S) ==
    /\ source \in S
    /\ position = 0
    /\ line = 1
    /\ column = 1
    /\ tokens = <<>>
    /\ symbol_table = initialize_built_in_functions(SymbolTable("global"))
    /\ result = NoResult
    /\ block_comments = <<>>
    /\ eof_returned = FALSE
    /\ error_raised = FALSE
    /\ analyze_status = "none"
    /\ analyze_calls = 0
    /\ returned = <<>>
    /\ scope = SymbolTable("scope")
    /\ table_call = NoCall

Init == InitOn(Sources(Alphabet, MaxLen))

InitChars == InitOn(Sources(CharAlphabet, MaxLenChars))

InitAfterComment ==
    InitOn({c \o b : c \in BlockComments, b \in Sources(BodyAlphabet, MaxBody)})

InitTrivia == InitOn(Sources(TriviaAlphabet, MaxLenTrivia))

InitWords == InitOn({Flatten(ws) : ws \in Sources(Pieces, MaxWords)})

(* a scanner on a one-identifier source, and a table built by a client *)
InitTable ==
    /\ source = <<"x">>
    /\ position = 0
    /\ line = 1
    /\ column = 1
    /\ tokens = <<>>
    /\ symbol_table = initialize_built_in_functions(SymbolTable("global"))
    /\ result = NoResult
    /\ block_comments = <<>>
    /\ eof_returned = FALSE
    /\ error_raised = FALSE
    /\ analyze_status = "none"
    /\ analyze_calls = 0
    /\ returned = <<>>
    /\ scope \in Scopes(MaxScopes)
    /\ table_call = NoCall

(* a direct call of next_token() that returns a token *)
NextTokenReturns ==
    LET r == next_token(Cursor, symbol_table, <<>>)
    IN /\ r.result.kind = "token"
       /\ position' = r.s.position
       /\ line' = r.s.line
       /\ column' = r.s.column
       /\ symbol_table' = r.table
       /\ result' = r.result
       /\ block_comments' = r.opened
       /\ eof_returned' = (eof_returned \/ r.result.type = "EOF")
       /\ returned' = IF r.result.type = "EOF" THEN returned
                      ELSE Append(returned, r.result)
       /\ UNCHANGED <<source, tokens, error_raised, analyze_status,
                      analyze_calls, scope, table_call>>

(* a direct call of next_token() that raises LexicalError *)
NextTokenRaises ==
    LET r == next_token(Cursor, symbol_table, <<>>)
    IN /\ r.result.kind = "error"
       /\ position' = r.s.position
       /\ line' = r.s.line
       /\ column' = r.s.column
       /\ symbol_table' = r.table
       /\ result' = r.result
       /\ block_comments' = r.opened
       /\ error_raised' = TRUE
       /\ UNCHANGED <<source, tokens, eof_returned, analyze_status,
                      analyze_calls, returned, scope, table_call>>

(* a call of analyze() that returns self.tokens *)
AnalyzeReturns ==
    /\ analyze_calls < MaxAnalyzeCalls
    /\ LET r == analyze(Cursor, symbol_table, tokens, returned)
       IN /\ r.result.kind = "token"
          /\ position' = r.s.position
          /\ line' = r.s.line
          /\ column' = r.s.column
          /\ symbol_table' = r.table
          /\ tokens' = r.tokens
          /\ result' = r.result
          /\ block_comments' = r.opened
          /\ eof_returned' = TRUE
          /\ analyze_status' = "returned"
          /\ analyze_calls' = analyze_calls + 1
          /\ returned' = r.returned
          /\ UNCHANGED <<source, error_raised, scope, table_call>>

(* a call of analyze() that propagates LexicalError *)
AnalyzeRaises ==
    /\ analyze_calls < MaxAnalyzeCalls
    /\ LET r == analyze(Cursor, symbol_table, tokens, returned)
       IN /\ r.result.kind = "error"
          /\ position' = r.s.position
          /\ line' = r.s.line
          /\ column' = r.s.column
          /\ symbol_table' = r.table
          /\ tokens' = r.tokens
          /\ result' = r.result
          /\ block_comments' = r.opened
          /\ error_raised' = TRUE
          /\ analyze_status' = "raised"
          /\ analyze_calls' = analyze_calls + 1
          /\ returned' = r.returned
          /\ UNCHANGED <<source, eof_returned, scope, table_call>>

(* a client calls scope.insert(name, info) and then scope.lookup(name);    *)
(* before is the entry of the scope's own dictionary before the call       *)
InsertCall ==
    \E name \in Names, info \in Infos :
        /\ scope' = insert(scope, name, info)
        /\ table_call' =
              [op |-> "insert", name |-> name, info |-> <<info>>,
               value |-> lookup(insert(scope, name, info), name),
               before |-> IF name \in DOMAIN scope.symbols
                          THEN <<scope.symbols[name]>> ELSE <<>>]
        /\ UNCHANGED <<source, position, line, column, symbol_table, tokens,
                       result, block_comments, eof_returned, error_raised,
                       analyze_status, analyze_calls, returned>>

(* a client calls scope.lookup(name) *)
LookupCall ==
    \E name \in Names :
        /\ table_call' =
              [op |-> "lookup", name |-> name, info |-> <<>>,
               value |-> lookup(scope, name), before |-> <<>>]
        /\ UNCHANGED <<source, position, line, column, symbol_table, tokens,
                       result, block_comments, eof_returned, error_raised,
                       analyze_status, analyze_calls, returned, scope>>

Next ==
    \/ NextTokenReturns
    \/ NextTokenRaises
    \/ AnalyzeReturns
    \/ AnalyzeRaises

(* the scanner's operations and a client's calls of SymbolTable methods *)
NextTable ==
    \/ NextTokenReturns
    \/ InsertCall
    \/ LookupCall

Spec == Init /\ [][Next]_vars

SpecChars == InitChars /\ [][Next]_vars

SpecAfterComment == InitAfterComment /\ [][Next]_vars

SpecTrivia == InitTrivia /\ [][Next]_vars

SpecWords == InitWords /\ [][Next]_vars

SpecTable == InitTable /\ [][NextTable]_vars

(***************************************************************************)
(* Properties                                                              *)
(***************************************************************************)
Max(S) == CHOOSE x \in S : \A y \in S : y <= x

(* 1-based index of the last newline before position p, 0 if there is none *)
LastNewlineBefore(p) == Max({0} \cup {i \in 1..p : source[i] = "\n"})

(* the 1-based column of the character at position p *)
ColumnOf(p) == 1 + p - LastNewlineBefore(p)

(* the 1-based line of the character at position p *)
LineOf(p) == 1 + Cardinality({i \in 1..p : source[i] = "\n"})

IsToken(r, type) == r.kind = "token" /\ r.type = type

IsError(r, message) == r.kind = "error" /\ r.type = message

(* C1: every token returned by next_token(), the EOF token and the first   *)
(* token after a block comment included, carries as column the 1-based     *)
(* position of its first character within its line.                        *)
C1_ColumnIsTokenStart ==
    result.kind = "token" => result.column = ColumnOf(result.start)

(* C2: once next_token() has returned EOF, every later call returns EOF    *)
(* again, raises nothing and leaves position, line, column and the symbol  *)
(* table unchanged.                                                        *)
C2_EofIdempotent ==
    [][eof_returned =>
        /\ IsToken(result', "EOF")
        /\ error_raised' = error_raised
        /\ position' = position
        /\ line' = line
        /\ column' = column
        /\ symbol_table' = symbol_table]_vars

(* a second analyze() has run after the first one returned: next_token()   *)
(* was called with EOF already returned, and self.tokens ends in two EOFs  *)
C2_Witness ==
    /\ analyze_calls = 2
    /\ ~error_raised
    /\ Len(tokens) >= 3
    /\ tokens[Len(tokens)].type = "EOF"
    /\ tokens[Len(tokens) - 1].type = "EOF"

(* C3: once a call of next_token() has raised a lexical error, no later    *)
(* call returns a token or adds a symbol-table entry.                      *)
C3_ErrorIsTerminal ==
    [][error_raised =>
        /\ result'.kind # "token"
        /\ DOMAIN symbol_table'.symbols = DOMAIN symbol_table.symbols]_vars

(* the source is one numeric literal that starts with "." and has no       *)
(* leading digit, such as .14                                              *)
LeadingDotLiteral ==
    /\ Len(source) >= 2
    /\ source[1] = "."
    /\ \A i \in 2..Len(source) : source[i] \in Digits

(* C4: a numeric literal that starts with "." and has no leading digit is  *)
(* accepted: scanning it raises no lexical error.                          *)
C4_LeadingDotAccepted ==
    LeadingDotLiteral => ~error_raised /\ analyze_status # "raised"

Range(f) == {f[i] : i \in DOMAIN f}

Min(S) == CHOOSE x \in S : \A y \in S : x <= y

(* the six two-character operators and their kinds *)
TwoCharKind ==
    (<<"<", "=">> :> "LE") @@ (<<">", "=">> :> "GE") @@
    (<<"=", "=">> :> "EQ") @@ (<<"!", "=">> :> "NE") @@
    (<<"&", "&">> :> "AND") @@ (<<"|", "|">> :> "OR")

(* the characters that start a two-character operator and their kinds      *)
(* when they stand alone                                                   *)
LoneKind ==
    ("=" :> "EQUAL") @@ ("<" :> "LESS") @@ (">" :> "GREATER") @@
    ("!" :> "BANG")

(* the two characters at p form a two-character operator *)
OperatorAt(p) ==
    p + 1 < Len(source) /\ <<At(p), At(p + 1)>> \in DOMAIN TwoCharKind

(* the last call dispatched on a character of the source (it did not stop  *)
(* at end of input)                                                        *)
Dispatched == result.kind # "none" /\ result.start < Len(source)

(* C5: when the two characters at the cursor, after whitespace and         *)
(* comments, form a two-character operator, next_token() consumes both and *)
(* returns that operator with the column of the first of the two; a lone   *)
(* "=", "<", ">", "!" gives EQUAL, LESS, GREATER, BANG.                    *)
C5_OperatorMaximalMunch ==
    Dispatched =>
        LET p == result.start
        IN /\ OperatorAt(p) =>
                /\ IsToken(result, TwoCharKind[<<At(p), At(p + 1)>>])
                /\ result.value = <<At(p), At(p + 1)>>
                /\ result.column = ColumnOf(p)
                /\ position = p + 2
           /\ (~OperatorAt(p) /\ At(p) \in DOMAIN LoneKind) =>
                /\ IsToken(result, LoneKind[At(p)])
                /\ result.value = <<At(p)>>
                /\ position = p + 1

(* the 17 single-character token texts *)
SingleCharTexts ==
    {"(", ")", "{", "}", ",", ";", "+", "-", "*", "/", "%", "<", ">", "=",
     "!", "[", "]"}

(* no token rule accepts the character at p *)
NoRuleAccepts(p) ==
    /\ At(p) \notin Digits \cup Letters \cup {"_"}
    /\ ~OperatorAt(p)
    /\ At(p) \notin SingleCharTexts

(* C6: next_token() raises unexpected-character exactly when the character *)
(* at the cursor, after whitespace and comments, is accepted by no token   *)
(* rule; at the first character of the input the error carries line 1,     *)
(* column 1.                                                               *)
C6_UnexpectedCharacter ==
    /\ Dispatched =>
        (IsError(result, "Unexpected character")
            <=> NoRuleAccepts(result.start))
    /\ IsError(result, "Unexpected character") =>
        /\ Dispatched
        /\ result.start = 0 => (result.line = 1 /\ result.column = 1)

(* a lone "&" as the first character of a longer input has raised *)
C6_Witness ==
    /\ IsError(result, "Unexpected character")
    /\ result.start = 0
    /\ Len(source) >= 2
    /\ source[1] = "&"

(* no "*/" begins at position q or later *)
NoCloserFrom(q) ==
    ~\E i \in q..(Len(source) - 2) : At(i) = "*" /\ At(i + 1) = "/"

(* C7: at a block-comment opener next_token() raises unterminated-comment  *)
(* if and only if no closer begins at or after the character that follows  *)
(* the opener; the raising call returns no token.                          *)
C7_UnterminatedComment ==
    /\ \A k \in 1..Len(block_comments) :
        LET p == block_comments[k]
        IN /\ At(p) = "/" /\ At(p + 1) = "*"
           /\ (IsError(result, "Unterminated block comment")
                    /\ result.start = p)
                <=> NoCloserFrom(p + 2)
    /\ IsError(result, "Unterminated block comment") =>
        result.start \in Range(block_comments)

(* a call has skipped a closed comment and raised at a second opener whose *)
(* "/" follows its "*" directly                                            *)
C7_Witness ==
    /\ IsError(result, "Unterminated block comment")
    /\ Len(block_comments) = 2
    /\ result.start + 3 = Len(source)
    /\ At(result.start + 2) = "/"

(* the end (exclusive) of the longest run of digits with at most one "."   *)
(* that starts at position i                                               *)
RECURSIVE RunEnd(_, _)
RunEnd(i, dot) ==
    IF i < Len(source) /\ At(i) \in Digits THEN RunEnd(i + 1, dot)
    ELSE IF i < Len(source) /\ At(i) = "." /\ ~dot THEN RunEnd(i + 1, TRUE)
    ELSE i

NumericRun(p) == SubSeq(source, p + 1, RunEnd(p, FALSE))

EndsInDot(run) == run[Len(run)] = "."

(* the last call dispatched on a digit *)
AtNumber == Dispatched /\ At(result.start) \in Digits

(* C8: a numeric literal that ends in "." raises invalid-float-literal     *)
(* with the literal's line and the column of its first character; a        *)
(* literal that does not end in "." never raises it.                       *)
C8_InvalidFloatLiteral ==
    /\ AtNumber =>
        IF EndsInDot(NumericRun(result.start))
        THEN /\ IsError(result, "Invalid float literal")
             /\ result.line = LineOf(result.start)
             /\ result.column = ColumnOf(result.start)
        ELSE ~IsError(result, "Invalid float literal")
    /\ IsError(result, "Invalid float literal") => AtNumber

(* C9: at a digit next_token() returns the longest run of digits with at   *)
(* most one ".", as INT_LIT when the run has no "." and as FLOAT_LIT when  *)
(* it has one followed by a digit, and leaves the rest for the next call.  *)
C9_NumericLiteral ==
    /\ (AtNumber /\ ~EndsInDot(NumericRun(result.start))) =>
        LET run == NumericRun(result.start)
        IN /\ IsToken(result, IF "." \in Range(run) THEN "FLOAT_LIT"
                              ELSE "INT_LIT")
           /\ result.value = run
           /\ position = result.start + Len(run)
    /\ (result.kind = "token" /\ result.type \in {"INT_LIT", "FLOAT_LIT"}) =>
        AtNumber

(* a float literal was returned and a second "." is left at the cursor *)
C9_Witness ==
    /\ IsToken(result, "FLOAT_LIT")
    /\ position < Len(source)
    /\ At(position) = "."

(* the position of the first newline at or after p, or the end of input *)
EndOfLine(p) ==
    Min({Len(source)} \cup {i \in p..(Len(source) - 1) : At(i) = "\n"})

(* the source from position p on is whitespace, line comments and closed   *)
(* block comments only                                                     *)
RECURSIVE OnlyTriviaFrom(_)
OnlyTriviaFrom(p) ==
    IF p >= Len(source) THEN TRUE
    ELSE IF At(p) \in Spaces THEN OnlyTriviaFrom(p + 1)
    ELSE IF p + 1 < Len(source) /\ At(p) = "/" /\ At(p + 1) = "/"
    THEN OnlyTriviaFrom(EndOfLine(p + 2))
    ELSE IF p + 1 < Len(source) /\ At(p) = "/" /\ At(p + 1) = "*"
    THEN /\ ~NoCloserFrom(p + 2)
         /\ OnlyTriviaFrom(2 + Min({i \in (p + 2)..(Len(source) - 2) :
                                        At(i) = "*" /\ At(i + 1) = "/"}))
    ELSE FALSE

ReservedWords ==
    {<<"i", "f">>, <<"e", "l", "s", "e">>, <<"w", "h", "i", "l", "e">>,
     <<"f", "o", "r">>, <<"r", "e", "t", "u", "r", "n">>,
     <<"b", "r", "e", "a", "k">>, <<"n", "e", "w">>, <<"s", "i", "z", "e">>,
     <<"v", "o", "i", "d">>, <<"b", "o", "o", "l">>, <<"i", "n", "t">>,
     <<"f", "l", "o", "a", "t">>, <<"t", "r", "u", "e">>,
     <<"f", "a", "l", "s", "e">>}

BuiltIns == {<<"r", "e", "a", "d">>, <<"w", "r", "i", "t", "e">>}

(* the lexemes of the IDENTIFIER tokens returned so far *)
IdentifiersReturned ==
    {returned[k].value :
        k \in {j \in 1..Len(returned) : returned[j].type = "IDENTIFIER"}}

(* C11: the names of the symbol table are exactly read, write and the      *)
(* lexemes of the IDENTIFIER tokens returned so far; no keyword and        *)
(* neither true nor false is ever a name of the table.                     *)
C11_SymbolTableKeys ==
    /\ DOMAIN symbol_table.symbols = BuiltIns \cup IdentifiersReturned
    /\ DOMAIN symbol_table.symbols \cap ReservedWords = {}

(* a keyword or boolean literal and a new identifier have been returned *)
C11_Witness ==
    /\ \E k \in 1..Len(returned) : returned[k].value \in ReservedWords
    /\ IdentifiersReturned \ BuiltIns # {}

(* C12: a next_token() call never replaces or removes an entry and adds at *)
(* most one; scanning a name that is present leaves the table unchanged,   *)
(* so read and write keep type "function" and every other name has type    *)
(* "unknown".                                                              *)
C12_FirstOccurrenceWins ==
    [][/\ \A n \in DOMAIN symbol_table.symbols :
            /\ n \in DOMAIN symbol_table'.symbols
            /\ symbol_table'.symbols[n] = symbol_table.symbols[n]
       /\ analyze_calls' = analyze_calls =>
            /\ Cardinality(DOMAIN symbol_table'.symbols
                             \ DOMAIN symbol_table.symbols) <= 1
            /\ (/\ IsToken(result', "IDENTIFIER")
                /\ result'.value \in DOMAIN symbol_table.symbols)
                => symbol_table' = symbol_table
       /\ \A n \in DOMAIN symbol_table'.symbols :
            symbol_table'.symbols[n].type =
                IF n \in BuiltIns THEN "function" ELSE "unknown"]_vars

(* a built-in name has been scanned twice *)
C12_Witness ==
    \E j, k \in 1..Len(returned) :
        /\ j < k
        /\ returned[j].type = "IDENTIFIER"
        /\ returned[k].type = "IDENTIFIER"
        /\ returned[j].value = returned[k].value
        /\ returned[j].value \in BuiltIns


RECURSIVE Chain(_)
Chain(table) ==
    IF table.parent = <<>> THEN <<table.symbols>>
    ELSE <<table.symbols>> \o Chain(table.parent[1])

(* the entry of the innermost scope of the chain that has the name, if any *)
FirstHolding(table, name) ==
    LET c == Chain(table)
        holders == {i \in 1..Len(c) : name \in DOMAIN c[i]}
    IN IF holders = {} THEN <<>> ELSE <<c[Min(holders)][name]>>

(* C14: insert(name, info) stores info under name in the current scope,    *)
(* overwriting a previous entry, and lookup(name) right after returns      *)
(* info; lookup(name) returns the entry of the current scope, else that of *)
(* the nearest scope above that has one, else None; the scanner's table    *)
(* has no parent.                                                          *)
C14_InsertLookup ==
    /\ symbol_table.parent = <<>>
    /\ table_call.op = "insert" =>
        /\ table_call.name \in DOMAIN scope.symbols
        /\ <<scope.symbols[table_call.name]>> = table_call.info
        /\ table_call.value = table_call.info
    /\ table_call.op = "lookup" =>
        table_call.value = FirstHolding(scope, table_call.name)

(* insert has replaced an entry of the current scope while the scope above *)
(* holds another entry for the name, and the scanner has scanned a token   *)
C14_Witness ==
    /\ table_call.op = "insert"
    /\ table_call.before # <<>>
    /\ table_call.before # table_call.info
    /\ scope.parent # <<>>
    /\ FirstHolding(scope.parent[1], table_call.name) = table_call.before
    /\ returned # <<>>


(* C15: the line of every token returned by next_token(), EOF included, is *)
(* one more than the number of newline characters of the source before     *)
(* the first character of the token, wherever those newlines lie: in       *)
(* whitespace, at the end of a line comment or inside a block comment.     *)
C15_LineIsTokenLine ==
    result.kind = "token" => result.line = LineOf(result.start)

(* a token on line 3, after a newline inside a block comment and one in    *)
(* whitespace                                                              *)
C15_Witness ==
    /\ IsToken(result, "STAR")
    /\ ~error_raised
    /\ result.line = 3
    /\ Len(source) >= 3
    /\ SubSeq(source, 1, 3) = <<"/", "*", "\n">>
    /\ block_comments # <<>>


(* a newline is among the characters between positions p and q *)
NewlineBetween(p, q) == \E i \in (p + 1)..q : source[i] = "\n"

(* C16: the cursor stays within 0..len(source); no step, whether it        *)
(* returns a token or raises, moves position or line backwards; column     *)
(* becomes smaller only in a step that consumes a newline, and having been *)
(* reset to 1 there it is at most the true column of the position reached. *)
C16_CursorMonotone ==
    [][/\ 0 <= position /\ position <= Len(source)
       /\ 0 <= position' /\ position' <= Len(source)
       /\ position <= position'
       /\ line <= line'
       /\ column' < column => NewlineBetween(position, position')
       /\ NewlineBetween(position, position')
            => column' <= ColumnOf(position')]_vars

(* after the identifier aa on line 1 left the column at 3, the call that   *)
(* consumed the newline and the identifier a leaves it at 2                *)
C16_Witness ==
    /\ source = <<"a", "a", "\n", "a">>
    /\ Len(returned) = 2
    /\ returned[1].line = 1
    /\ returned[2].line = 2
    /\ position = 4
    /\ column = 2
    /\ ~error_raised


WordChars == Letters \cup Digits \cup {"_"}

(* the position after the maximal run of word characters that begins at p *)
WordEnd(p) ==
    Min({q \in p..Len(source) :
            q = Len(source) \/ source[q + 1] \notin WordChars})

(* C17: a call that finds a letter or an underscore at the cursor returns  *)
(* one token whose lexeme is the whole maximal run of letters, digits and  *)
(* underscores and leaves the cursor after the run; the kind is that of a  *)
(* keyword exactly when the whole run is a keyword, BOOL_LIT for true and  *)
(* false, and IDENTIFIER for every other run, among them the runs that     *)
(* only begin with or contain a keyword.                                   *)
C17_IdentifierMaximalMunch ==
    (Dispatched /\ At(result.start) \in Letters \cup {"_"}) =>
        LET run == SubSeq(source, result.start + 1, WordEnd(result.start))
        IN /\ result.kind = "token"
           /\ result.value = run
           /\ position = WordEnd(result.start)
           /\ (result.type = "IDENTIFIER") = (run \notin ReservedWords)
           /\ run \in ReservedWords => result.type = KEYWORDS[run]
           /\ run \in {<<"t", "r", "u", "e">>, <<"f", "a", "l", "s", "e">>}
                => result.type = "BOOL_LIT"

(* an IDENTIFIER whose lexeme goes on after a keyword or after true/false, *)
(* or has one at its end after an underscore                               *)
C17_Witness ==
    /\ IsToken(result, "IDENTIFIER")
    /\ \E w \in ReservedWords :
        /\ Len(w) < Len(result.value)
        /\ \/ SubSeq(result.value, 1, Len(w)) = w
           \/ SubSeq(result.value, Len(result.value) - Len(w) + 1,
                     Len(result.value)) = w


(* the position of the newline that ends the line of position p, or the    *)
(* length of the source                                                    *)
LineEnd(p) ==
    Min({q \in p..Len(source) : q = Len(source) \/ source[q + 1] = "\n"})

(* the positions from p on at which a block comment closer begins *)
Closers(p) ==
    {q \in p..(Len(source) - 2) : source[q + 1] = "*" /\ source[q + 2] = "/"}

StartsWith(p, a, b) ==
    p + 2 <= Len(source) /\ source[p + 1] = a /\ source[p + 2] = b

(* the characters from position p up to position q are whitespace and      *)
(* whole comments only                                                     *)
RECURSIVE TriviaSpan(_, _)
TriviaSpan(p, q) ==
    IF p = q THEN TRUE
    ELSE IF p > q THEN FALSE
    ELSE IF source[p + 1] \in Spaces THEN TriviaSpan(p + 1, q)
    ELSE IF StartsWith(p, "/", "/") THEN TriviaSpan(LineEnd(p + 2), q)
    ELSE IF StartsWith(p, "/", "*") /\ Closers(p + 2) # {}
         THEN TriviaSpan(Min(Closers(p + 2)) + 2, q)
    ELSE FALSE

(* the source from position p on with whitespace and comments deleted *)
RECURSIVE Strip(_)
Strip(p) ==
    IF p >= Len(source) THEN <<>>
    ELSE IF source[p + 1] \in Spaces THEN Strip(p + 1)
    ELSE IF StartsWith(p, "/", "/") THEN Strip(LineEnd(p + 2))
    ELSE IF StartsWith(p, "/", "*") /\ Closers(p + 2) # {}
         THEN Strip(Min(Closers(p + 2)) + 2)
    ELSE <<source[p + 1]>> \o Strip(p + 1)

(* the position after the lexeme of the k-th token returned; 0 for k = 0 *)
LexemeEnd(k) ==
    IF k = 0 THEN 0 ELSE returned[k].start + Len(returned[k].value)

(* C18: as long as no call has raised, the value of every token returned   *)
(* other than EOF is the source text at the place where the token begins,  *)
(* each token begins at or after the end of the one before it, the         *)
(* characters in between (and, once EOF is returned, those after the last  *)
(* token) are whitespace and comments, and the lexemes concatenated in the *)
(* order returned are the source with whitespace and comments deleted.     *)
C18_LexemeFidelity ==
    ~error_raised =>
        /\ \A k \in 1..Len(returned) :
            /\ returned[k].value # <<>>
            /\ LexemeEnd(k) <= Len(source)
            /\ returned[k].value
                 = SubSeq(source, returned[k].start + 1, LexemeEnd(k))
            /\ TriviaSpan(LexemeEnd(k - 1), returned[k].start)
        /\ eof_returned =>
            /\ TriviaSpan(LexemeEnd(Len(returned)), Len(source))
            /\ Flatten([k \in 1..Len(returned) |-> returned[k].value])
                 = Strip(0)

(* a lexeme of two or more characters has been returned from a source     *)
(* that holds a comment, then EOF, with no error                           *)
C18_Witness ==
    /\ ~error_raised
    /\ eof_returned
    /\ Len(returned) >= 1
    /\ \E k \in 1..Len(returned) : Len(returned[k].value) >= 2
    /\ Len(Strip(0)) < Len(source)
    /\ \E p \in 0..Len(source) :
        StartsWith(p, "/", "/") \/ StartsWith(p, "/", "*")


(* C19: the error raised for a block comment without closer carries the    *)
(* line and the column of the end of the source: one more than the number  *)
(* of newlines of the whole source, and one more than the number of        *)
(* characters after the last newline.                                      *)
C19_UnterminatedAtEndOfInput ==
    IsError(result, "Unterminated block comment") =>
        /\ result.line = LineOf(Len(source))
        /\ result.column = ColumnOf(Len(source))

====
